---------------------------- MODULE Spec2Model ----------------------------
(***************************************************************************)
(* A model of scrubcsv's `run` function (src/src/main.rs): the header      *)
(* step, the per-record loop with its fast and slow paths, the cell        *)
(* cleaner, the two CSV writers, the final flush and the quality gate.     *)
(*                                                                         *)
(* Bytes are modelled as their integer codes, fields as sequences of       *)
(* bytes, records as sequences of fields.                                  *)
(***************************************************************************)
EXTENDS Integers, Sequences, FiniteSets

VARIABLES opt, input, pc, pos, hdr, expected_cols, required_cols,
          rows, bad_rows, wtr, bad_rows_wtr, outcome

vars == <<opt, input, pc, pos, hdr, expected_cols, required_cols,
          rows, bad_rows, wtr, bad_rows_wtr, outcome>>

(***************************************************************************)
(* Bounds of the model.                                                    *)
(***************************************************************************)
\* Data rows of an input of the general family.
MaxRows == 2
\* Data rows of an input of the long, two-shape family (quality gate).
GateRows == 9
\* Bytes of the single field of an input of the one-cell family.
MaxFieldLen == 3
\* Columns of a header of the header family.
MaxHdrCols == 4

(***************************************************************************)
(* Bytes.                                                                  *)
(***************************************************************************)
LF == 10
CR == 13
SP == 32
Underscore == 95
\* U+FFFD, what String::from_utf8_lossy puts in place of ill-formed bytes.
ReplacementChar == 65533

\* u8::is_ascii_whitespace: space, tab, line feed, form feed, carriage return.
IsAsciiWhitespace(c) == c \in {9, 10, 12, 13, 32}

(***************************************************************************)
(* Sequence helpers.                                                       *)
(***************************************************************************)
SeqsUpTo(S, n) == UNION {[1..k -> S] : k \in 0..n}

Contains(val, c) == \E i \in 1..Len(val) : val[i] = c

StartsWith(val, p) == Len(p) <= Len(val) /\ SubSeq(val, 1, Len(p)) = p

EndsWith(val, p) ==
    Len(p) <= Len(val) /\ SubSeq(val, Len(val) - Len(p) + 1, Len(val)) = p

HasSubstring(val, p) ==
    \E i \in 0..(Len(val) - Len(p)) : SubSeq(val, i + 1, i + Len(p)) = p

(***************************************************************************)
(* The --null option.  A user pattern is modelled as a top-level           *)
(* alternation of literal byte strings, <<alt1, ..., altn>> for the regex  *)
(* alt1|...|altn; NoNull is the absent option.                             *)
(***************************************************************************)
NoNull == <<>>

\* The pattern matches the whole value (what "NULL" means to the user).
MatchesInFull(P, val) == \E i \in 1..Len(P) : val = P[i]

\* Regex::new(format!("^{}$", P)).is_match(val): an unanchored search for
\* ^alt1|alt2|...|altn$, where ^ binds to the first alternative only and $
\* to the last one only.
null_re_is_match(P, val) ==
    IF Len(P) = 1
    THEN val = P[1]
    ELSE \/ StartsWith(val, P[1])
         \/ \E i \in 2..(Len(P) - 1) : HasSubstring(val, P[i])
         \/ EndsWith(val, P[Len(P)])

(***************************************************************************)
(* The cell cleaner, main.rs 275-310.                                      *)
(***************************************************************************)
\* Step 1: values matching the --null regex become empty.
NullStep(o, val) ==
    IF o.null # NoNull /\ null_re_is_match(o.null, val) THEN <<>> ELSE val

\* Step 2: val[first..=last] with first/last the first and last byte that
\* is not ASCII whitespace; empty when there is none.
TrimWhitespace(val) ==
    LET keep  == {i \in 1..Len(val) : ~IsAsciiWhitespace(val[i])}
    IN  IF keep = {}
        THEN <<>>
        ELSE LET first == CHOOSE i \in keep : \A j \in keep : i <= j
                 last  == CHOOSE i \in keep : \A j \in keep : j <= i
             IN  SubSeq(val, first, last)

TrimStep(o, val) == IF o.trim_whitespace THEN TrimWhitespace(val) ELSE val

\* NEWLINE_RE.replace_all(val, b" ") for the regex \n|\r\n? : leftmost
\* match first, a CR takes a following LF with it.
ReplaceEachNewlineByte(val) ==
    [i \in 1..Len(val) |-> IF val[i] \in {LF, CR} THEN SP ELSE val[i]]

RECURSIVE ReplaceAllNewlines(_)
ReplaceAllNewlines(val) ==
    IF val = <<>> THEN <<>>
    ELSE IF val[1] = LF THEN <<SP>> \o ReplaceAllNewlines(Tail(val))
    ELSE IF val[1] = CR
         THEN IF Len(val) >= 2 /\ val[2] = LF
              THEN <<SP>> \o ReplaceAllNewlines(Tail(Tail(val)))
              ELSE <<SP>> \o ReplaceAllNewlines(Tail(val))
    ELSE <<val[1]>> \o ReplaceAllNewlines(Tail(val))

\* Step 3, with the cheap pre-check.
NewlineStepAlways(o, val) == ReplaceAllNewlines(val)

NewlineStep(o, val) ==
    IF o.replace_newlines /\ (Contains(val, LF) \/ Contains(val, CR))
    THEN ReplaceAllNewlines(val)
    ELSE val

CleanCell(o, val) == NewlineStep(o, TrimStep(o, NullStep(o, val)))

\* record.into_iter().map(...) : the cleaner applied to every field.
Cleaned(o, record) == [i \in 1..Len(record) |-> CleanCell(o, record[i])]


(***************************************************************************)
(* String::from_utf8_lossy, main.rs 206: the whole column name is decoded  *)
(* as UTF-8 into characters (code points); every maximal ill-formed run of *)
(* bytes (a stray byte, or a sequence cut short) becomes one U+FFFD.       *)
(***************************************************************************)
IsContinuation(c) == c \in 128..191

\* The first character of a non-empty byte string and the bytes it takes.
Utf8Step(b) ==
    LET b1     == b[1]
        has(i) == Len(b) >= i
        bad(n) == [len |-> n, char |-> ReplacementChar]
    IN  IF b1 < 128 THEN [len |-> 1, char |-> b1]
        ELSE IF b1 \in 194..223
        THEN IF has(2) /\ IsContinuation(b[2])
             THEN [len |-> 2, char |-> (b1 - 192) * 64 + (b[2] - 128)]
             ELSE bad(1)
        ELSE IF b1 \in 224..239
        THEN LET lo == IF b1 = 224 THEN 160 ELSE 128
                 hi == IF b1 = 237 THEN 159 ELSE 191
             IN  IF ~(has(2) /\ b[2] \in lo..hi) THEN bad(1)
                 ELSE IF ~(has(3) /\ IsContinuation(b[3])) THEN bad(2)
                 ELSE [len  |-> 3,
                       char |-> (b1 - 224) * 4096 + (b[2] - 128) * 64
                                + (b[3] - 128)]
        ELSE IF b1 \in 240..244
        THEN LET lo == IF b1 = 240 THEN 144 ELSE 128
                 hi == IF b1 = 244 THEN 143 ELSE 191
             IN  IF ~(has(2) /\ b[2] \in lo..hi) THEN bad(1)
                 ELSE IF ~(has(3) /\ IsContinuation(b[3])) THEN bad(2)
                 ELSE IF ~(has(4) /\ IsContinuation(b[4])) THEN bad(3)
                 ELSE [len  |-> 4,
                       char |-> (b1 - 240) * 262144 + (b[2] - 128) * 4096
                                + (b[3] - 128) * 64 + (b[4] - 128)]
        ELSE bad(1)

RECURSIVE from_utf8_lossy(_)
from_utf8_lossy(b) ==
    IF b = <<>> THEN <<>>
    ELSE LET s == Utf8Step(b)
         IN  <<s.char>> \o from_utf8_lossy(SubSeq(b, s.len + 1, Len(b)))

(***************************************************************************)
(* The column-name uniquifier (Uniquifier::unique_id_for).  Its state maps *)
(* a cleaned name to the number of times it has been produced.             *)
(***************************************************************************)
IsLowerAlnumOrUnderscore(c) ==
    c \in 97..122 \/ c \in 48..57 \/ c = Underscore

\* The lowercase form of a character, as far as it matters here: ASCII
\* letters, and the two characters outside ASCII whose lowercase form holds
\* an ASCII letter (KELVIN SIGN gives k, LATIN CAPITAL I WITH DOT ABOVE gives
\* i and a combining dot).  Every other character stays outside ASCII and
\* is replaced by an underscore whatever its lowercase form is.
ToLowercase(c) ==
    IF c \in 65..90 THEN <<c + 32>>
    ELSE IF c = 8490 THEN <<107>>
    ELSE IF c = 304 THEN <<105, 775>>
    ELSE <<c>>

RECURSIVE LowercaseAll(_)
LowercaseAll(name) ==
    IF name = <<>> THEN <<>>
    ELSE ToLowercase(Head(name)) \o LowercaseAll(Tail(name))

\* Lowercase the name, replace every character that is not an ASCII
\* lowercase letter, digit or underscore by an underscore; an empty result
\* becomes "_".
CleanName(name) ==
    LET l == LowercaseAll(name)
        s == [i \in 1..Len(l) |->
                 IF IsLowerAlnumOrUnderscore(l[i]) THEN l[i] ELSE Underscore]
    IN  IF s = <<>> THEN <<Underscore>> ELSE s

\* The decimal digits of n, as bytes.
RECURSIVE ToDecimal(_)
ToDecimal(n) ==
    IF n < 10 THEN <<48 + n>> ELSE ToDecimal(n \div 10) \o <<48 + (n % 10)>>

NoCounts == [x \in {} |-> 0]

\* The name returned for a name, and the uniquifier's state afterwards.
unique_id_for(counts, name) ==
    LET cleaned == CleanName(name)
        n       == IF cleaned \in DOMAIN counts THEN counts[cleaned] ELSE 0
    IN  [name   |-> IF n = 0
                    THEN cleaned
                    ELSE cleaned \o <<Underscore>> \o ToDecimal(n + 1),
         counts |-> [x \in (DOMAIN counts) \cup {cleaned} |->
                        IF x = cleaned THEN n + 1 ELSE counts[x]]]

\* main.rs 201-211: every header field, in order, is decoded and given to
\* unique_id_for of one uniquifier.
RECURSIVE CleanColumnNamesFrom(_, _)
CleanColumnNamesFrom(counts, raw_hdr) ==
    IF raw_hdr = <<>> THEN <<>>
    ELSE LET r == unique_id_for(counts, from_utf8_lossy(Head(raw_hdr)))
         IN  <<r.name>> \o CleanColumnNamesFrom(r.counts, Tail(raw_hdr))

CleanColumnNames(raw_hdr) == CleanColumnNamesFrom(NoCounts, raw_hdr)

(***************************************************************************)
(* A csv::Writer built by WriterBuilder::new() (not flexible): the records *)
(* handed to it wait in its buffer until a flush moves them to the sink.   *)
(* first_field_count is {} until the first record, then {its length}.  A   *)
(* record in the model is a few bytes, far below the buffer capacity       *)
(* (8 KiB at least), so the buffer never spills on its own.                *)
(***************************************************************************)
\* The delimiter and the quote byte of WriterBuilder::new(), which are also
\* the defaults of --delimiter and --quote.
Comma == 44
DoubleQuote == 34

NewWriter == [open |-> TRUE,  first_field_count |-> {}, buf |-> <<>>, sink |-> <<>>,
              delimiter |-> Comma, quote |-> {DoubleQuote}]
NoWriter  == [open |-> FALSE, first_field_count |-> {}, buf |-> <<>>, sink |-> <<>>,
              delimiter |-> Comma, quote |-> {DoubleQuote}]

\* The bytes of one field in a dialect: quoted when it holds the delimiter,
\* the quote byte, CR or LF, with every quote byte doubled; never quoted
\* when the dialect has no quote byte (quote = {}).
RECURSIVE DoubleQuotes(_, _)
DoubleQuotes(q, val) ==
    IF val = <<>> THEN <<>>
    ELSE (IF val[1] = q THEN <<q, q>> ELSE <<val[1]>>)
         \o DoubleQuotes(q, Tail(val))

FieldBytes(delimiter, quote, val, alone) ==
    IF quote = {} THEN val
    ELSE LET q == CHOOSE c \in quote : TRUE
         IN  IF \/ \E i \in 1..Len(val) : val[i] \in {delimiter, q, CR, LF}
                \/ (alone /\ val = <<>>)
             THEN <<q>> \o DoubleQuotes(q, val) \o <<q>>
             ELSE val

\* The bytes of one record in a dialect: the fields, the delimiter between
\* them, a line feed at the end.
RECURSIVE JoinFields(_, _, _, _)
JoinFields(delimiter, quote, record, alone) ==
    IF record = <<>> THEN <<LF>>
    ELSE FieldBytes(delimiter, quote, Head(record), alone)
         \o (IF Len(record) > 1 THEN <<delimiter>> ELSE <<>>)
         \o JoinFields(delimiter, quote, Tail(record), alone)

Serialize(delimiter, quote, record) ==
    JoinFields(delimiter, quote, record, Len(record) = 1)

\* What a writer puts in its buffer for a record.
WriterBytes(w, record) == Serialize(w.delimiter, w.quote, record)

\* The field-count check of a non-flexible writer.
FieldCountOk(w, record) ==
    w.first_field_count = {} \/ w.first_field_count = {Len(record)}

\* write_record: the fields go to the buffer (also when the field-count
\* check then fails, before the terminator is written).
WriteRecord(w, record) ==
    [w EXCEPT !.buf = Append(@, record),
              !.first_field_count = IF @ = {} THEN {Len(record)} ELSE @]

Flush(w) == [w EXCEPT !.sink = @ \o w.buf, !.buf = <<>>]

\* Drop of a writer at the end of `run`: a last flush.
DropWriter(w) == IF w.open THEN Flush(w) ELSE w

\* Everything handed to a writer so far.
Handed(w) == w.sink \o w.buf

(***************************************************************************)
(* The row pipeline, main.rs 196-358.                                      *)
(***************************************************************************)
\* main.rs 222-229.
RequiredCols(header, drop_row_if_null) ==
    [i \in 1..Len(header) |-> header[i] \in drop_row_if_null]

\* main.rs 239-242.
use_fast_path(o) ==
    /\ o.null = NoNull
    /\ ~o.replace_newlines
    /\ ~o.trim_whitespace
    /\ o.drop_row_if_null = {}

\* main.rs 256.
WrongShape(record, n) == Len(record) # n

\* main.rs 318-320: a required column of the cleaned row is empty.
RequiredIsNullRaw(row, record, required) ==
    \E i \in 1..Len(record) :
        i <= Len(required) /\ required[i] /\ record[i] = <<>>

RequiredIsNull(row, record, required) ==
    \E i \in 1..Len(row) :
        i <= Len(required) /\ required[i] /\ row[i] = <<>>

\* main.rs 260 and 324: what goes to the bad-row writer.
DivertedCleaned(record, row) == row

Diverted(record, row) == record

\* main.rs 271: the fast path hands the record over as it is.
FastPathRow(record) == record

\* main.rs 257 and 321.
CountBadOnlyShape(n, record, cols) ==
    IF Len(record) # cols THEN n + 1 ELSE n

CountBad(n, record, cols) == n + 1

\* main.rs 353: more than 10% of the rows are bad.
BadRowFactor == 10

TooManyBadRowsInclusive(bad, total) == bad * BadRowFactor >= total

TooManyBadRows(bad, total) == bad * BadRowFactor > total

Ok(record) == [err |-> FALSE, fields |-> record]
ReadError  == [err |-> TRUE,  fields |-> <<>>]

\* main.rs 196-234: read the header, clean it if asked, write it, compute
\* the expected column count and the required-column mask, start counting.
ReadHeader ==
    /\ pc = "header"
    /\ IF input.header.err
       THEN \* "cannot read headers": return Err, nothing was written.
            /\ wtr' = DropWriter(wtr)
            /\ bad_rows_wtr' = DropWriter(bad_rows_wtr)
            /\ pc' = "exit"
            /\ outcome' = "error"
            /\ UNCHANGED <<hdr, expected_cols, required_cols, rows, bad_rows>>
       ELSE /\ LET h == IF opt.clean_column_names
                        THEN CleanColumnNames(input.header.fields)
                        ELSE input.header.fields
               IN  /\ hdr' = h
                   /\ wtr' = WriteRecord(wtr, h)
                   /\ expected_cols' = Len(h)
                   /\ required_cols' = RequiredCols(h, opt.drop_row_if_null)
            /\ rows' = 1
            /\ bad_rows' = 0
            /\ pc' = "rows"
            /\ UNCHANGED <<bad_rows_wtr, outcome>>
    /\ UNCHANGED <<opt, input, pos>>

\* main.rs 250: `?` on a tokenizer error leaves the loop and `run`.
AfterReadErrorSkip(p) == p

AfterReadError(p) == "exit"

\* main.rs 249-333: one iteration of the loop.
NextRow ==
    /\ pc = "rows"
    /\ pos < Len(input.records)
    /\ pos' = pos + 1
    /\ LET item == input.records[pos + 1]
       IN  IF item.err
           THEN \* `?` on the tokenizer's error: return Err, writers dropped.
                /\ wtr' = DropWriter(wtr)
                /\ bad_rows_wtr' = DropWriter(bad_rows_wtr)
                /\ pc' = AfterReadError(pc)
                /\ outcome' = "error"
                /\ UNCHANGED <<rows, bad_rows>>
           ELSE LET record == item.fields
                    fast   == use_fast_path(opt)
                    row    == IF fast THEN FastPathRow(record)
                                      ELSE Cleaned(opt, record)
                    bad    == \/ WrongShape(record, expected_cols)
                              \/ /\ ~fast
                                 /\ opt.drop_row_if_null # {}
                                 /\ RequiredIsNull(row, record, required_cols)
                    w      == IF bad THEN bad_rows_wtr ELSE wtr
                    out    == IF bad THEN Diverted(record, row) ELSE row
                    failed == w.open /\ ~FieldCountOk(w, out)
                    w2     == IF w.open THEN WriteRecord(w, out) ELSE w
                    wtr2   == IF bad THEN wtr ELSE w2
                    bad2   == IF bad THEN w2 ELSE bad_rows_wtr
                IN  /\ rows' = rows + 1
                    /\ bad_rows' = IF bad
                                   THEN CountBad(bad_rows, record, expected_cols)
                                   ELSE bad_rows
                    /\ IF failed
                       THEN \* "cannot write record": return Err.
                            /\ wtr' = DropWriter(wtr2)
                            /\ bad_rows_wtr' = DropWriter(bad2)
                            /\ pc' = "exit"
                            /\ outcome' = "error"
                       ELSE /\ wtr' = wtr2
                            /\ bad_rows_wtr' = bad2
                            /\ UNCHANGED <<pc, outcome>>
    /\ UNCHANGED <<opt, input, hdr, expected_cols, required_cols>>

\* main.rs 335-336: the input is exhausted, flush the primary writer.
FlushOutput ==
    /\ pc = "rows"
    /\ pos = Len(input.records)
    /\ wtr' = Flush(wtr)
    /\ pc' = "gate"
    /\ UNCHANGED <<opt, input, pos, hdr, expected_cols, required_cols,
                   rows, bad_rows, bad_rows_wtr, outcome>>

\* main.rs 351-358 and 361-371: process::exit(2) runs no destructor, so
\* the writers keep what they buffer; returning Ok drops them.
QualityGate ==
    /\ pc = "gate"
    /\ IF TooManyBadRows(bad_rows, rows)
       THEN /\ outcome' = "too_many_bad_rows"
            /\ UNCHANGED <<wtr, bad_rows_wtr>>
       ELSE /\ outcome' = "success"
            /\ wtr' = DropWriter(wtr)
            /\ bad_rows_wtr' = DropWriter(bad_rows_wtr)
    /\ pc' = "exit"
    /\ UNCHANGED <<opt, input, pos, hdr, expected_cols, required_cols,
                   rows, bad_rows>>

(***************************************************************************)
(* Inputs.                                                                 *)
(***************************************************************************)
ColA == <<97>>
ColB == <<98>>
\* The --null patterns N and N|L.
PatN   == << <<78>> >>
PatNorL == << <<78>>, <<76>> >>

Options(nulls, newlines, trims, cleans, drops, sinks) ==
    [null : nulls, replace_newlines : newlines, trim_whitespace : trims,
     clean_column_names : cleans, drop_row_if_null : drops,
     bad_rows_path : sinks, delimiter : {Comma}, quote : {{DoubleQuote}}]

\* General family: a two-column table, rows of one to three fields, read
\* errors, required columns, newline folding, a bad-row sink.
GenRecords ==
    [1..2 -> {<<>>, <<120>>, <<78>>}]
        \cup {<<<<120>>>>, <<<<120>>, <<>>, <<120>>>>, <<<<CR, LF>>, <<120>>>>}

GenInputs ==
    [header : {Ok(<<ColA, ColB>>), ReadError},
     records : SeqsUpTo({Ok(r) : r \in GenRecords} \cup {ReadError}, MaxRows)]

GenOptions ==
    Options({NoNull, PatN}, BOOLEAN, {FALSE}, {FALSE},
            {{}, {ColA}, {ColA, ColB}}, BOOLEAN)

\* Long family: many rows of two shapes, nothing to clean.
GateInputs ==
    [header : {Ok(<<ColA, ColB>>)},
     records : SeqsUpTo({Ok(<<<<120>>, <<120>>>>), Ok(<<<<120>>>>)}, GateRows)]

GateOptions ==
    Options({NoNull}, {FALSE}, {FALSE}, {FALSE}, {{}}, BOOLEAN)

\* One-cell family: one column, one row, every field over a small alphabet.
CellBytes == {LF, CR, SP, 76, 78, 120}

CellInputs ==
    [header : {Ok(<<ColA>>)},
     records : {<<Ok(<<f>>)>> : f \in SeqsUpTo(CellBytes, MaxFieldLen)}]

CellOptions ==
    Options({NoNull, PatN, PatNorL}, BOOLEAN, BOOLEAN, {FALSE},
            {{}, {ColA}}, BOOLEAN)

\* Header family: raw column names "", a, A, a_2, "a b", an invalid byte,
\* a two-byte character (e with acute accent) and a sequence cut short.
HdrNames ==
    {<<>>, <<97>>, <<65>>, <<97, 95, 50>>, <<97, 32, 98>>, <<255>>,
     <<195, 169>>, <<226, 130>>}

HdrInputs ==
    [header : {Ok(h) : h \in SeqsUpTo(HdrNames, MaxHdrCols) \ {<<>>}},
     records : {<<>>}]

HdrOptions ==
    Options({NoNull}, {FALSE}, {FALSE}, {TRUE}, {{}}, {FALSE})

\* Dialect family: a two-column table read with the delimiter , | or tab
\* and the quote byte ", ' or none (main.rs 163-174; a missing delimiter
\* ends the run at main.rs 167, before anything is read).
DialectInputs ==
    [header : {Ok(<<ColA, ColB>>)},
     records : SeqsUpTo({Ok(<<<<120>>>>), Ok(<<<<120>>, <<120>>>>),
                         Ok(<<<<120>>, <<>>, <<120>>>>), Ok(<<<<124>>>>)}, 1)]

DialectOptions ==
    {[o EXCEPT !.delimiter = d, !.quote = q] :
        o \in Options({NoNull}, {FALSE}, {FALSE}, {FALSE}, {{}}, BOOLEAN),
        d \in {Comma, 124, 9},
        q \in {{DoubleQuote}, {39}, {}}}

Init ==
    /\ \/ opt \in GenOptions  /\ input \in GenInputs
       \/ opt \in DialectOptions /\ input \in DialectInputs
       \/ opt \in GateOptions /\ input \in GateInputs
       \/ opt \in CellOptions /\ input \in CellInputs
       \/ opt \in HdrOptions  /\ input \in HdrInputs
    /\ pc = "header"
    /\ pos = 0
    /\ hdr = <<>>
    /\ expected_cols = 0
    /\ required_cols = <<>>
    /\ rows = 0
    /\ bad_rows = 0
    /\ wtr = NewWriter
    /\ bad_rows_wtr = IF opt.bad_rows_path THEN NewWriter ELSE NoWriter
    /\ outcome = "running"

Next == ReadHeader \/ NextRow \/ FlushOutput \/ QualityGate

Spec == Init /\ [][Next]_vars


(***************************************************************************)
(* What the claims speak about.                                            *)
(***************************************************************************)
\* The records the tokenizer has yielded so far, in order.
RECURSIVE FieldsOfOk(_)
FieldsOfOk(items) ==
    IF items = <<>> THEN <<>>
    ELSE (IF Head(items).err THEN <<>> ELSE <<Head(items).fields>>)
         \o FieldsOfOk(Tail(items))

Consumed == FieldsOfOk(SubSeq(input.records, 1, pos))

ReadFailed == \E i \in 1..pos : input.records[i].err

\* The header was read: rows, bad_rows and expected_cols are set.
HeaderRead == pc # "header" /\ ~input.header.err

\* The data records handed to the primary writer (the header comes first).
DataOut == IF Handed(wtr) = <<>> THEN <<>> ELSE Tail(Handed(wtr))

BadOut == Handed(bad_rows_wtr)

RightShape(r) == Len(r) = Len(hdr)

\* No required position holds an empty value after cleaning.
RequiredPresent(r) ==
    \A i \in 1..Len(r) :
        (i <= Len(required_cols) /\ required_cols[i])
            => CleanCell(opt, r[i]) # <<>>

Accepted(r) == RightShape(r) /\ RequiredPresent(r)

RECURSIVE AcceptedCleaned(_)
AcceptedCleaned(recs) ==
    IF recs = <<>> THEN <<>>
    ELSE (IF Accepted(Head(recs)) THEN <<Cleaned(opt, Head(recs))>> ELSE <<>>)
         \o AcceptedCleaned(Tail(recs))

RECURSIVE RejectedOriginals(_)
RejectedOriginals(recs) ==
    IF recs = <<>> THEN <<>>
    ELSE (IF Accepted(Head(recs)) THEN <<>> ELSE <<Head(recs)>>)
         \o RejectedOriginals(Tail(recs))

RECURSIVE RightShaped(_)
RightShaped(recs) ==
    IF recs = <<>> THEN <<>>
    ELSE (IF RightShape(Head(recs)) THEN <<Head(recs)>> ELSE <<>>)
         \o RightShaped(Tail(recs))

NoCleaning ==
    /\ opt.null = NoNull
    /\ ~opt.replace_newlines
    /\ ~opt.trim_whitespace
    /\ opt.drop_row_if_null = {}

\* C1 (shape invariant): the data records handed to the primary writer are
\* exactly the consumed records that have the header's field count and no
\* empty value, after cleaning, at a required position, each in its cleaned
\* form and in input order; everything handed to the primary writer has
\* expected_cols fields.
ShapeInvariant ==
    HeaderRead =>
        /\ DataOut = AcceptedCleaned(Consumed)
        /\ \A k \in 1..Len(Handed(wtr)) : Len(Handed(wtr)[k]) = expected_cols

\* A run that wrote a record and rejected a right-shaped record whose
\* required value was not empty before cleaning.
ShapeInvariantWitness ==
    /\ pc = "exit"
    /\ opt.drop_row_if_null # {}
    /\ Len(DataOut) >= 1
    /\ \E k \in 1..Len(Consumed) :
           /\ RightShape(Consumed[k])
           /\ ~RequiredPresent(Consumed[k])
           /\ \A i \in 1..Len(Consumed[k]) : Consumed[k][i] # <<>>

\* C2 (quality gate): a run that ends without an I/O or parse error ends
\* "too many bad rows" exactly when bad_rows * 10 > rows, and with success
\* exactly when bad_rows * 10 <= rows, the header counted as row 1.
QualityGateThreshold ==
    (pc = "exit" /\ outcome # "error") =>
        /\ pos = Len(input.records)
        /\ (bad_rows * 10 > rows)  => outcome = "too_many_bad_rows"
        /\ (bad_rows * 10 <= rows) => outcome = "success"

\* The boundary: one bad row in ten, success.
QualityGateWitness ==
    /\ pc = "exit"
    /\ bad_rows >= 1
    /\ bad_rows * 10 = rows
    /\ outcome = "success"

\* C3 (fast-path equivalence): with no cleaning option and no required
\* column, the data records handed to the primary writer are what the slow
\* path hands over, the cleaned form of every right-shaped record, and
\* these are the right-shaped records themselves, unchanged and in order.
FastPathEquivalence ==
    (HeaderRead /\ NoCleaning) =>
        /\ DataOut = [k \in 1..Len(RightShaped(Consumed)) |->
                         Cleaned(opt, RightShaped(Consumed)[k])]
        /\ DataOut = RightShaped(Consumed)

\* A fast-path run that wrote a field holding a newline or a blank.
FastPathWitness ==
    /\ pc = "exit"
    /\ NoCleaning
    /\ \E k \in 1..Len(DataOut) : \E i \in 1..Len(DataOut[k]) :
           \E j \in 1..Len(DataOut[k][i]) :
               IsAsciiWhitespace(DataOut[k][i][j])

\* C4 (null-pattern totality): with a null pattern and no other cleaning,
\* a written field differs from the field read only if the pattern matches
\* the whole field read (and then it is empty).
NullPatternTotality ==
    (/\ HeaderRead
     /\ opt.null # NoNull
     /\ ~opt.replace_newlines
     /\ ~opt.trim_whitespace
     /\ opt.drop_row_if_null = {}) =>
        \A k \in 1..Len(DataOut) :
            LET orig == RightShaped(Consumed)[k]
            IN  \A i \in 1..Len(orig) :
                    \/ DataOut[k][i] = orig[i]
                    \/ DataOut[k][i] = <<>> /\ MatchesInFull(opt.null, orig[i])

\* C5 (per-row rejections never abort): the run ends with the generic
\* failure only if the tokenizer failed.
RejectionsNeverAbort == outcome = "error" => (ReadFailed \/ input.header.err)

\* C6 (flushed before the verdict): when the run ends "too many bad rows",
\* neither writer holds an unflushed record.
FlushedBeforeVerdict ==
    outcome = "too_many_bad_rows" =>
        /\ wtr.buf = <<>>
        /\ bad_rows_wtr.buf = <<>>

\* C7 (bad rows diverted as received): with a bad-row sink, the records
\* handed to the bad-row writer are the rejected records, as read and in
\* input order, and every consumed record went to exactly one writer.
BadRowsAsReceived ==
    (HeaderRead /\ opt.bad_rows_path) =>
        /\ BadOut = RejectedOriginals(Consumed)
        /\ Len(DataOut) + Len(BadOut) = Len(Consumed)

\* A diverted required-column violation that cleaning would have changed.
BadRowsWitness ==
    /\ pc = "exit"
    /\ opt.bad_rows_path
    /\ \E k \in 1..Len(BadOut) :
           /\ RightShape(BadOut[k])
           /\ Cleaned(opt, BadOut[k]) # BadOut[k]

CountRejected == Len(RejectedOriginals(Consumed))

\* C8 (counter accuracy): once the header is read, rows is 1 plus the
\* records read, bad_rows the records rejected, and the data records
\* written number rows - 1 - bad_rows; the header step leaves rows = 1 and
\* bad_rows = 0; no step decreases a counter.
CounterAccuracy ==
    /\ [](HeaderRead =>
            /\ rows = 1 + Len(Consumed)
            /\ bad_rows = CountRejected
            /\ Len(DataOut) = rows - 1 - bad_rows)
    /\ [][/\ rows' >= rows
          /\ bad_rows' >= bad_rows
          /\ (pc = "header" /\ pc' = "rows") => (rows' = 1 /\ bad_rows' = 0)]_vars

\* A finished run with a written record and a required-column rejection.
CounterWitness ==
    /\ pc = "exit"
    /\ rows = 3
    /\ bad_rows = 1
    /\ Len(DataOut) = 1
    /\ \E k \in 1..Len(Consumed) :
           RightShape(Consumed[k]) /\ ~RequiredPresent(Consumed[k])

\* C9 (uniquifier): with --clean-column-names the header keeps its field
\* count and its names are non-empty, made of ASCII lowercase letters,
\* digits and underscores, and pairwise distinct.
UniqueColumnNames ==
    (HeaderRead /\ opt.clean_column_names) =>
        /\ Len(hdr) = Len(input.header.fields)
        /\ \A i \in 1..Len(hdr) :
               /\ hdr[i] # <<>>
               /\ \A j \in 1..Len(hdr[i]) :
                      hdr[i][j] \in (97..122) \cup (48..57) \cup {95}
        /\ \A i, j \in 1..Len(hdr) : i # j => hdr[i] # hdr[j]

\* C10 (--drop-row-if-null): with required columns and a null pattern, no
\* written record has, at a required position, a value that is empty or
\* that the null pattern matches in full.
RequiredNeverNull ==
    (HeaderRead /\ opt.drop_row_if_null # {} /\ opt.null # NoNull) =>
        \A k \in 1..Len(DataOut) : \A i \in 1..Len(DataOut[k]) :
            (i <= Len(required_cols) /\ required_cols[i]) =>
                /\ DataOut[k][i] # <<>>
                /\ ~MatchesInFull(opt.null, DataOut[k][i])

\* C13 (tokenizer error aborts): once reading the header has failed, the
\* run is over with the generic failure and nothing was read or written;
\* once reading a record has failed, the run
\* is over with the generic failure; the failed read is the last one, it
\* is not counted, and only the records before it were counted, written or
\* diverted; the outcome is never "too many bad rows".
TokenizerErrorAborts ==
    /\ (input.header.err /\ pc # "header") =>
           /\ pc = "exit"
           /\ outcome = "error"
           /\ pos = 0
           /\ Handed(wtr) = <<>>
           /\ BadOut = <<>>
    /\ ReadFailed =>
        /\ pc = "exit"
        /\ outcome = "error"
        /\ input.records[pos].err
        /\ \A i \in 1..(pos - 1) : ~input.records[i].err
        /\ rows = pos
        /\ bad_rows = CountRejected
        /\ Len(DataOut) = pos - 1 - bad_rows
        /\ opt.bad_rows_path => Len(BadOut) = bad_rows

\* A read error met when more than a tenth of the rows were bad.
TokenizerErrorWitness ==
    /\ ReadFailed
    /\ pc = "exit"
    /\ bad_rows * 10 > rows
    /\ outcome = "error"

RECURSIVE AcceptedOriginals(_)
AcceptedOriginals(recs) ==
    IF recs = <<>> THEN <<>>
    ELSE (IF Accepted(Head(recs)) THEN <<Head(recs)>> ELSE <<>>)
         \o AcceptedOriginals(Tail(recs))

\* val with one space for every CRLF pair, lone LF and lone CR: an LF right
\* after a CR belongs to that CR's pair and leaves nothing of its own.
OneSpacePerNewline(val) ==
    LET kept   == {i \in 1..Len(val) :
                      ~(val[i] = LF /\ i > 1 /\ val[i - 1] = CR)}
        nth(j) == CHOOSE i \in kept : Cardinality({m \in kept : m <= i}) = j
    IN  [j \in 1..Cardinality(kept) |->
            IF val[nth(j)] \in {LF, CR} THEN SP ELSE val[nth(j)]]

\* C12 (newline folding): with --replace-newlines every written record has
\* the field count of the record read, and each written field is the value
\* left by the null and trim steps with one space for every CRLF pair, lone
\* LF and lone CR; it holds no CR or LF, and is that value itself when the
\* value holds neither.
NewlineFolding ==
    (HeaderRead /\ opt.replace_newlines) =>
        LET origs == AcceptedOriginals(Consumed)
        IN  /\ Len(DataOut) = Len(origs)
            /\ \A k \in 1..Len(DataOut) :
                   /\ Len(DataOut[k]) = Len(origs[k])
                   /\ \A i \in 1..Len(DataOut[k]) :
                          LET before == TrimStep(opt, NullStep(opt, origs[k][i]))
                              after  == DataOut[k][i]
                          IN  /\ after = OneSpacePerNewline(before)
                              /\ ~Contains(after, LF)
                              /\ ~Contains(after, CR)
                              /\ (~Contains(before, LF) /\ ~Contains(before, CR))
                                     => after = before

\* A written record read with a CRLF pair in a field.
NewlineFoldingWitness ==
    /\ pc = "exit"
    /\ opt.replace_newlines
    /\ Len(DataOut) >= 1
    /\ \E k \in 1..Len(AcceptedOriginals(Consumed)) :
           \E i \in 1..Len(AcceptedOriginals(Consumed)[k]) :
               HasSubstring(TrimStep(opt, NullStep(opt,
                   AcceptedOriginals(Consumed)[k][i])), <<CR, LF>>)

\* C11 (bad-row sink dialect): with a bad-row sink, the bytes the bad-row
\* writer produces for a diverted record are the record's bytes in the
\* delimiter and quote convention the reader was configured with.
BadRowsInInputDialect ==
    (HeaderRead /\ opt.bad_rows_path) =>
        \A k \in 1..Len(BadOut) :
            WriterBytes(bad_rows_wtr, BadOut[k])
                = Serialize(opt.delimiter, opt.quote, BadOut[k])

=============================================================================
